---- MODULE Spec2Model ----
(***************************************************************************)
(* Model of magenta/music/chords_encoder_decoder.py: the two one-hot chord *)
(* encodings MajorMinorChordOneHotEncoding (25 classes) and                *)
(* TriadChordOneHotEncoding (49 classes).                                  *)
(*                                                                         *)
(* State: the module-level list _PITCH_CLASS_MAPPING, the two encoding     *)
(* objects (their only field is _chord_symbol_functions), the latest call  *)
(* made on them (callee, argument, outcome, and the calls the callee made  *)
(* on the chord symbol functions) and the call it continues, if any.       *)
(***************************************************************************)
EXTENDS Integers, Sequences, FiniteSets, TLC

VARIABLES PITCH_CLASS_MAPPING, mm, triad, prev, last

vars == <<PITCH_CLASS_MAPPING, mm, triad, prev, last>>

(***************************************************************************)
(* Bounds of the exploration.                                              *)
(***************************************************************************)
\* decode_event is called with every index from Margin below the last
\* index Python's negative indexing accepts to Margin above the last class
Margin == 2

(***************************************************************************)
(* Module constants.                                                       *)
(***************************************************************************)
NOTES_PER_OCTAVE == 12

NO_CHORD == "N.C."

PitchClassMappingInit ==
  <<"C", "C#", "D", "Eb", "E", "F", "F#", "G", "Ab", "A", "Bb", "B">>

CHORD_QUALITY_MAJOR == "MAJOR"

CHORD_QUALITY_MINOR == "MINOR"

CHORD_QUALITY_AUGMENTED == "AUGMENTED"

CHORD_QUALITY_DIMINISHED == "DIMINISHED"

CHORD_QUALITY_OTHER == "OTHER"

(***************************************************************************)
(* The chord symbol functions (chord_symbols_lib.ChordSymbolFunctions).    *)
(* A figure is a root name followed by a chord kind; the root gives the    *)
(* pitch class and the kind gives the triad quality.  Anything else,       *)
(* NO_CHORD included, is rejected with a ChordSymbolException.             *)
(***************************************************************************)
RootNames ==
  ("C" :> 0) @@ ("C#" :> 1) @@ ("Db" :> 1) @@ ("D" :> 2) @@ ("D#" :> 3) @@
  ("Eb" :> 3) @@ ("E" :> 4) @@ ("F" :> 5) @@ ("F#" :> 6) @@ ("Gb" :> 6) @@
  ("G" :> 7) @@ ("G#" :> 8) @@ ("Ab" :> 8) @@ ("A" :> 9) @@ ("A#" :> 10) @@
  ("Bb" :> 10) @@ ("B" :> 11)

ChordKinds ==
  ("" :> CHORD_QUALITY_MAJOR) @@ ("m" :> CHORD_QUALITY_MINOR) @@
  ("min" :> CHORD_QUALITY_MINOR) @@ ("aug" :> CHORD_QUALITY_AUGMENTED) @@
  ("dim" :> CHORD_QUALITY_DIMINISHED) @@ ("7" :> CHORD_QUALITY_OTHER) @@
  ("sus4" :> CHORD_QUALITY_OTHER)

Figures == {rn \o kd : rn \in DOMAIN RootNames, kd \in DOMAIN ChordKinds}

Malformed == {"H7", "?"}

ParseTable ==
  [f \in Figures |->
     CHOOSE p \in (DOMAIN RootNames) \X (DOMAIN ChordKinds) : p[1] \o p[2] = f]

DefaultFunctions == "default"

chord_symbol_root(csf, figure) ==
  IF csf = DefaultFunctions /\ figure \in Figures
  THEN [ok |-> TRUE, val |-> RootNames[ParseTable[figure][1]]]
  ELSE [ok |-> FALSE, val |-> 0]

chord_symbol_quality(csf, figure) ==
  IF csf = DefaultFunctions /\ figure \in Figures
  THEN [ok |-> TRUE, val |-> ChordKinds[ParseTable[figure][2]]]
  ELSE [ok |-> FALSE, val |-> CHORD_QUALITY_OTHER]

(***************************************************************************)
(* Outcomes of a call: an index, a label or a raised exception.            *)
(***************************************************************************)
ReturnIndex(i) == [kind |-> "index", index |-> i, label |-> ""]

ReturnLabel(s) == [kind |-> "label", index |-> 0, label |-> s]

Raise(e) == [kind |-> e, index |-> 0, label |-> ""]

\* Python list indexing mapping[k]: negative k counts from the end,
\* anything outside -len..len-1 raises IndexError
ListGet(mapping, k, suffix) ==
  IF 0 <= k /\ k < Len(mapping) THEN ReturnLabel(mapping[k + 1] \o suffix)
  ELSE IF -Len(mapping) <= k /\ k < 0
       THEN ReturnLabel(mapping[Len(mapping) + k + 1] \o suffix)
       ELSE Raise("IndexError")

(***************************************************************************)
(* MajorMinorChordOneHotEncoding                                           *)
(***************************************************************************)
MajorMinor_init(chord_symbol_functions) ==
  [_chord_symbol_functions |-> chord_symbol_functions]

MajorMinor_num_classes == 2 * NOTES_PER_OCTAVE + 1

MajorMinor_default_event == NO_CHORD

\* Variant: a chord that is neither major nor minor falls back to index 0
MajorMinor_encode_event_Fallback(self, event) ==
  IF event = NO_CHORD THEN [ret |-> ReturnIndex(0), calls |-> <<>>]
  ELSE
    LET root == chord_symbol_root(self._chord_symbol_functions, event)
        quality == chord_symbol_quality(self._chord_symbol_functions, event)
    IN  IF ~root.ok
        THEN [ret |-> Raise("ChordSymbolException"),
              calls |-> <<"chord_symbol_root">>]
        ELSE IF ~quality.ok
        THEN [ret |-> Raise("ChordSymbolException"),
              calls |-> <<"chord_symbol_root", "chord_symbol_quality">>]
        ELSE
          [ret |->
             IF quality.val = CHORD_QUALITY_MAJOR
             THEN ReturnIndex(root.val + 1)
             ELSE IF quality.val = CHORD_QUALITY_MINOR
             THEN ReturnIndex(root.val + NOTES_PER_OCTAVE + 1)
             ELSE ReturnIndex(0),
           calls |-> <<"chord_symbol_root", "chord_symbol_quality">>]

\* Variant: the minor band starts one index early
MajorMinor_encode_event_MinorOffset(self, event) ==
  IF event = NO_CHORD THEN [ret |-> ReturnIndex(0), calls |-> <<>>]
  ELSE
    LET root == chord_symbol_root(self._chord_symbol_functions, event)
        quality == chord_symbol_quality(self._chord_symbol_functions, event)
    IN  IF ~root.ok
        THEN [ret |-> Raise("ChordSymbolException"),
              calls |-> <<"chord_symbol_root">>]
        ELSE IF ~quality.ok
        THEN [ret |-> Raise("ChordSymbolException"),
              calls |-> <<"chord_symbol_root", "chord_symbol_quality">>]
        ELSE
          [ret |->
             IF quality.val = CHORD_QUALITY_MAJOR
             THEN ReturnIndex(root.val + 1)
             ELSE IF quality.val = CHORD_QUALITY_MINOR
             THEN ReturnIndex(root.val + NOTES_PER_OCTAVE)
             ELSE Raise("ChordEncodingException"),
           calls |-> <<"chord_symbol_root", "chord_symbol_quality">>]

MajorMinor_encode_event(self, event) ==
  IF event = NO_CHORD THEN [ret |-> ReturnIndex(0), calls |-> <<>>]
  ELSE
    LET root == chord_symbol_root(self._chord_symbol_functions, event)
        quality == chord_symbol_quality(self._chord_symbol_functions, event)
    IN  IF ~root.ok
        THEN [ret |-> Raise("ChordSymbolException"),
              calls |-> <<"chord_symbol_root">>]
        ELSE IF ~quality.ok
        THEN [ret |-> Raise("ChordSymbolException"),
              calls |-> <<"chord_symbol_root", "chord_symbol_quality">>]
        ELSE
          [ret |->
             IF quality.val = CHORD_QUALITY_MAJOR
             THEN ReturnIndex(root.val + 1)
             ELSE IF quality.val = CHORD_QUALITY_MINOR
             THEN ReturnIndex(root.val + NOTES_PER_OCTAVE + 1)
             ELSE Raise("ChordEncodingException"),
           calls |-> <<"chord_symbol_root", "chord_symbol_quality">>]

\* Variant: minor chords are spelled with the suffix 'min'
MajorMinor_decode_event_MinSuffix(mapping, index) ==
  IF index = 0 THEN ReturnLabel(NO_CHORD)
  ELSE IF index - 1 < 12
  THEN ListGet(mapping, index - 1, "")
  ELSE ListGet(mapping, index - NOTES_PER_OCTAVE - 1, "min")

\* Variant: the encoding spells roots from a table of its own, all sharps
MajorMinor_decode_event_Sharps(mapping, index) ==
  LET sharps == <<"C", "C#", "D", "D#", "E", "F",
                  "F#", "G", "G#", "A", "A#", "B">>
  IN  IF index = 0 THEN ReturnLabel(NO_CHORD)
      ELSE IF index - 1 < 12
      THEN ListGet(sharps, index - 1, "")
      ELSE ListGet(sharps, index - NOTES_PER_OCTAVE - 1, "m")

MajorMinor_decode_event(mapping, index) ==
  IF index = 0 THEN ReturnLabel(NO_CHORD)
  ELSE IF index - 1 < 12
  THEN ListGet(mapping, index - 1, "")
  ELSE ListGet(mapping, index - NOTES_PER_OCTAVE - 1, "m")

(***************************************************************************)
(* TriadChordOneHotEncoding                                                *)
(***************************************************************************)
Triad_init(chord_symbol_functions) ==
  [_chord_symbol_functions |-> chord_symbol_functions]

Triad_num_classes == 4 * NOTES_PER_OCTAVE + 1

Triad_default_event == NO_CHORD

\* Variant: the augmented band starts one index early
Triad_encode_event_AugOffset(self, event) ==
  IF event = NO_CHORD THEN [ret |-> ReturnIndex(0), calls |-> <<>>]
  ELSE
    LET root == chord_symbol_root(self._chord_symbol_functions, event)
        quality == chord_symbol_quality(self._chord_symbol_functions, event)
    IN  IF ~root.ok
        THEN [ret |-> Raise("ChordSymbolException"),
              calls |-> <<"chord_symbol_root">>]
        ELSE IF ~quality.ok
        THEN [ret |-> Raise("ChordSymbolException"),
              calls |-> <<"chord_symbol_root", "chord_symbol_quality">>]
        ELSE
          [ret |->
             IF quality.val = CHORD_QUALITY_MAJOR
             THEN ReturnIndex(root.val + 1)
             ELSE IF quality.val = CHORD_QUALITY_MINOR
             THEN ReturnIndex(root.val + NOTES_PER_OCTAVE + 1)
             ELSE IF quality.val = CHORD_QUALITY_AUGMENTED
             THEN ReturnIndex(root.val + 2 * NOTES_PER_OCTAVE)
             ELSE IF quality.val = CHORD_QUALITY_DIMINISHED
             THEN ReturnIndex(root.val + 3 * NOTES_PER_OCTAVE + 1)
             ELSE Raise("ChordEncodingException"),
           calls |-> <<"chord_symbol_root", "chord_symbol_quality">>]

\* Variant: the chord symbol is parsed before the test for NO_CHORD
Triad_encode_event_ParseFirst(self, event) ==
    LET root == chord_symbol_root(self._chord_symbol_functions, event)
        quality == chord_symbol_quality(self._chord_symbol_functions, event)
    IN  IF ~root.ok
        THEN [ret |-> Raise("ChordSymbolException"),
              calls |-> <<"chord_symbol_root">>]
        ELSE IF ~quality.ok
        THEN [ret |-> Raise("ChordSymbolException"),
              calls |-> <<"chord_symbol_root", "chord_symbol_quality">>]
        ELSE
          IF event = NO_CHORD
          THEN [ret |-> ReturnIndex(0),
                calls |-> <<"chord_symbol_root", "chord_symbol_quality">>]
          ELSE
          [ret |->
             IF quality.val = CHORD_QUALITY_MAJOR
             THEN ReturnIndex(root.val + 1)
             ELSE IF quality.val = CHORD_QUALITY_MINOR
             THEN ReturnIndex(root.val + NOTES_PER_OCTAVE + 1)
             ELSE IF quality.val = CHORD_QUALITY_AUGMENTED
             THEN ReturnIndex(root.val + 2 * NOTES_PER_OCTAVE + 1)
             ELSE IF quality.val = CHORD_QUALITY_DIMINISHED
             THEN ReturnIndex(root.val + 3 * NOTES_PER_OCTAVE + 1)
             ELSE Raise("ChordEncodingException"),
           calls |-> <<"chord_symbol_root", "chord_symbol_quality">>]

Triad_encode_event(self, event) ==
  IF event = NO_CHORD THEN [ret |-> ReturnIndex(0), calls |-> <<>>]
  ELSE
    LET root == chord_symbol_root(self._chord_symbol_functions, event)
        quality == chord_symbol_quality(self._chord_symbol_functions, event)
    IN  IF ~root.ok
        THEN [ret |-> Raise("ChordSymbolException"),
              calls |-> <<"chord_symbol_root">>]
        ELSE IF ~quality.ok
        THEN [ret |-> Raise("ChordSymbolException"),
              calls |-> <<"chord_symbol_root", "chord_symbol_quality">>]
        ELSE
          [ret |->
             IF quality.val = CHORD_QUALITY_MAJOR
             THEN ReturnIndex(root.val + 1)
             ELSE IF quality.val = CHORD_QUALITY_MINOR
             THEN ReturnIndex(root.val + NOTES_PER_OCTAVE + 1)
             ELSE IF quality.val = CHORD_QUALITY_AUGMENTED
             THEN ReturnIndex(root.val + 2 * NOTES_PER_OCTAVE + 1)
             ELSE IF quality.val = CHORD_QUALITY_DIMINISHED
             THEN ReturnIndex(root.val + 3 * NOTES_PER_OCTAVE + 1)
             ELSE Raise("ChordEncodingException"),
           calls |-> <<"chord_symbol_root", "chord_symbol_quality">>]

\* Variant: augmented chords are spelled with the suffix '+'
Triad_decode_event_PlusSuffix(mapping, index) ==
  IF index = 0 THEN ReturnLabel(NO_CHORD)
  ELSE IF index - 1 < 12
  THEN ListGet(mapping, index - 1, "")
  ELSE IF index - NOTES_PER_OCTAVE - 1 < 12
  THEN ListGet(mapping, index - NOTES_PER_OCTAVE - 1, "m")
  ELSE IF index - 2 * NOTES_PER_OCTAVE - 1 < 12
  THEN ListGet(mapping, index - 2 * NOTES_PER_OCTAVE - 1, "+")
  ELSE ListGet(mapping, index - 3 * NOTES_PER_OCTAVE - 1, "dim")

\* Variant: the major band's upper comparison is inclusive
Triad_decode_event_Inclusive(mapping, index) ==
  IF index = 0 THEN ReturnLabel(NO_CHORD)
  ELSE IF index - 1 <= 12
  THEN ListGet(mapping, index - 1, "")
  ELSE IF index - NOTES_PER_OCTAVE - 1 < 12
  THEN ListGet(mapping, index - NOTES_PER_OCTAVE - 1, "m")
  ELSE IF index - 2 * NOTES_PER_OCTAVE - 1 < 12
  THEN ListGet(mapping, index - 2 * NOTES_PER_OCTAVE - 1, "aug")
  ELSE ListGet(mapping, index - 3 * NOTES_PER_OCTAVE - 1, "dim")

Triad_decode_event(mapping, index) ==
  IF index = 0 THEN ReturnLabel(NO_CHORD)
  ELSE IF index - 1 < 12
  THEN ListGet(mapping, index - 1, "")
  ELSE IF index - NOTES_PER_OCTAVE - 1 < 12
  THEN ListGet(mapping, index - NOTES_PER_OCTAVE - 1, "m")
  ELSE IF index - 2 * NOTES_PER_OCTAVE - 1 < 12
  THEN ListGet(mapping, index - 2 * NOTES_PER_OCTAVE - 1, "aug")
  ELSE ListGet(mapping, index - 3 * NOTES_PER_OCTAVE - 1, "dim")

(***************************************************************************)
(* Callers' inputs.                                                        *)
(***************************************************************************)
Events == Figures \cup Malformed \cup {NO_CHORD}

Indices ==
  (0 - NOTES_PER_OCTAVE - Margin) .. (Triad_num_classes - 1 + Margin)

NoCall ==
  [codec |-> "none", op |-> "none", event |-> "", index |-> 0,
   ret |-> Raise("none"), calls |-> <<>>]

EncodeCall(codec, event, r) ==
  [codec |-> codec, op |-> "encode", event |-> event, index |-> 0,
   ret |-> r.ret, calls |-> r.calls]

DecodeCall(codec, index, r) ==
  [codec |-> codec, op |-> "decode", event |-> "", index |-> index,
   ret |-> r, calls |-> <<>>]

\* The latest call continues the one before it when its argument is that
\* call's argument (a repeat, on either encoding) or that call's result
\* (a round trip); prev remembers the call before only in that case.
ChainsEvent(c, event) ==
  \/ c.op = "encode" /\ c.event = event
  \/ c.op = "decode" /\ c.ret.kind = "label" /\ c.ret.label = event

ChainsIndex(c, index) ==
  \/ c.op = "decode" /\ c.index = index
  \/ c.op = "encode" /\ c.ret.kind = "index" /\ c.ret.index = index

(***************************************************************************)
(* The state machine: construction, then any sequence of calls.            *)
(***************************************************************************)
Init ==
  /\ PITCH_CLASS_MAPPING = PitchClassMappingInit
  /\ mm = MajorMinor_init(DefaultFunctions)
  /\ triad = Triad_init(DefaultFunctions)
  /\ prev = NoCall
  /\ last = NoCall

MajorMinorEncode(event) ==
  /\ last' = EncodeCall("MajorMinor", event, MajorMinor_encode_event(mm, event))
  /\ prev' = IF ChainsEvent(last, event) THEN last ELSE NoCall
  /\ UNCHANGED <<PITCH_CLASS_MAPPING, mm, triad>>

\* Variant: a major root is taken out of the list with pop(index - 1)
\* instead of being read with [index - 1]
MajorMinorDecode_Pop(index) ==
  /\ last' = DecodeCall("MajorMinor", index,
                        MajorMinor_decode_event(PITCH_CLASS_MAPPING, index))
  /\ prev' = IF ChainsIndex(last, index) THEN last ELSE NoCall
  /\ PITCH_CLASS_MAPPING' =
       IF 1 <= index /\ index <= Len(PITCH_CLASS_MAPPING)
       THEN SubSeq(PITCH_CLASS_MAPPING, 1, index - 1) \o
            SubSeq(PITCH_CLASS_MAPPING, index + 1, Len(PITCH_CLASS_MAPPING))
       ELSE PITCH_CLASS_MAPPING
  /\ UNCHANGED <<mm, triad>>

MajorMinorDecode(index) ==
  /\ last' = DecodeCall("MajorMinor", index,
                        MajorMinor_decode_event(PITCH_CLASS_MAPPING, index))
  /\ prev' = IF ChainsIndex(last, index) THEN last ELSE NoCall
  /\ UNCHANGED <<PITCH_CLASS_MAPPING, mm, triad>>

TriadEncode(event) ==
  /\ last' = EncodeCall("Triad", event, Triad_encode_event(triad, event))
  /\ prev' = IF ChainsEvent(last, event) THEN last ELSE NoCall
  /\ UNCHANGED <<PITCH_CLASS_MAPPING, mm, triad>>

TriadDecode(index) ==
  /\ last' = DecodeCall("Triad", index,
                        Triad_decode_event(PITCH_CLASS_MAPPING, index))
  /\ prev' = IF ChainsIndex(last, index) THEN last ELSE NoCall
  /\ UNCHANGED <<PITCH_CLASS_MAPPING, mm, triad>>

Next ==
  \/ \E event \in Events : MajorMinorEncode(event)
  \/ \E index \in Indices : MajorMinorDecode(index)
  \/ \E event \in Events : TriadEncode(event)
  \/ \E index \in Indices : TriadDecode(index)

Spec == Init /\ [][Next]_vars

(***************************************************************************)
(* Vocabulary of the properties.                                           *)
(***************************************************************************)
PitchClassTable ==
  <<"C", "C#", "D", "Eb", "E", "F", "F#", "G", "Ab", "A", "Bb", "B">>

BandQuality ==
  <<CHORD_QUALITY_MAJOR, CHORD_QUALITY_MINOR,
    CHORD_QUALITY_AUGMENTED, CHORD_QUALITY_DIMINISHED>>

BandSuffix == <<"", "m", "aug", "dim">>

Bands(codec) == IF codec = "MajorMinor" THEN 0 .. 1 ELSE 0 .. 3

NumClasses(codec) ==
  IF codec = "MajorMinor" THEN MajorMinor_num_classes ELSE Triad_num_classes

OracleRoot(event) == chord_symbol_root(DefaultFunctions, event)

OracleQuality(event) == chord_symbol_quality(DefaultFunctions, event)

\* the oracle accepts the label with a root in 0..11 and a quality of the codec
Supported(codec, event) ==
  /\ event # NO_CHORD
  /\ OracleRoot(event).ok /\ OracleRoot(event).val \in 0 .. 11
  /\ OracleQuality(event).ok
  /\ \E k \in Bands(codec) : OracleQuality(event).val = BandQuality[k + 1]

BandOf(event) ==
  CHOOSE k \in 0 .. 3 : OracleQuality(event).val = BandQuality[k + 1]

CanonicalLabel(p, k) == PitchClassTable[p + 1] \o BandSuffix[k + 1]

\* the label is the table's name of its own root followed by the suffix of
\* its own quality
IsCanonical(codec, event) ==
  /\ Supported(codec, event)
  /\ event = CanonicalLabel(OracleRoot(event).val, BandOf(event))

\* last is decode(prev's index) after prev, an encode on the same codec
RoundTrip ==
  /\ prev.op = "encode" /\ prev.ret.kind = "index"
  /\ last.op = "decode" /\ last.codec = prev.codec
  /\ last.index = prev.ret.index

(***************************************************************************)
(* C1: for each codec, every pitch class and every quality of the codec,   *)
(* encoding the canonical label (table name plus '', 'm', 'aug', 'dim')    *)
(* succeeds and decoding the index it gives returns that very label.       *)
(***************************************************************************)
C1_RoundTripCanonical ==
  /\ (last.op = "encode" /\ IsCanonical(last.codec, last.event))
       => last.ret.kind = "index"
  /\ (RoundTrip /\ IsCanonical(prev.codec, prev.event))
       => last.ret = ReturnLabel(prev.event)

C1_Witness ==
  /\ prev.codec = "MajorMinor" /\ prev.op = "encode" /\ prev.event = "C#m"
  /\ prev.ret = ReturnIndex(14)
  /\ last.codec = "MajorMinor" /\ last.op = "decode" /\ last.index = 14
  /\ last.ret = ReturnLabel("C#m")

(***************************************************************************)
(* C2 as stated: for each codec and every label the oracle accepts with a  *)
(* supported quality, whatever its spelling, decode(encode(label)) is the  *)
(* label.                                                                  *)
(***************************************************************************)
C2_RoundTripAnySpelling ==
  (RoundTrip /\ Supported(prev.codec, prev.event))
    => last.ret = ReturnLabel(prev.event)

(***************************************************************************)
(* C2 amended: for each codec and every label the oracle accepts with a    *)
(* supported quality, decode(encode(label)) is the canonical label of the  *)
(* label's root and quality; it is the label itself exactly when the       *)
(* label is canonically spelled.                                           *)
(***************************************************************************)
C2_RoundTripCanonicalises ==
  (RoundTrip /\ Supported(prev.codec, prev.event))
    => /\ last.ret = ReturnLabel(CanonicalLabel(OracleRoot(prev.event).val,
                                                BandOf(prev.event)))
       /\ (last.ret.label = prev.event
             <=> IsCanonical(prev.codec, prev.event))

C2_Witness ==
  /\ prev.codec = "Triad" /\ prev.op = "encode" /\ prev.event = "G#aug"
  /\ prev.ret = ReturnIndex(33)
  /\ last.codec = "Triad" /\ last.op = "decode" /\ last.index = 33
  /\ last.ret = ReturnLabel("Abaug")

(***************************************************************************)
(* C3: for each codec, decoding an index outside [0, num_classes) ends in  *)
(* an error and never returns a label.                                     *)
(***************************************************************************)
C3_OutOfRangeFails ==
  (/\ last.op = "decode"
   /\ (last.index < 0 \/ last.index >= NumClasses(last.codec)))
    => /\ last.ret.kind # "label"
       /\ last.ret.kind = "IndexError"

(***************************************************************************)
(* C4: encoding a label other than NO_CHORD whose oracle quality the codec *)
(* does not support raises the encoding error; no index is returned.       *)
(***************************************************************************)
C4_UnsupportedQualityRaises ==
  (/\ last.op = "encode" /\ last.event # NO_CHORD
   /\ OracleQuality(last.event).ok
   /\ ~ \E k \in Bands(last.codec) :
          OracleQuality(last.event).val = BandQuality[k + 1])
    => last.ret = Raise("ChordEncodingException")

C4_Witness ==
  /\ last.codec = "MajorMinor" /\ last.op = "encode" /\ last.event = "Caug"
  /\ last.ret.kind = "ChordEncodingException"
  /\ prev.codec = "Triad" /\ prev.op = "encode" /\ prev.event = "Caug"
  /\ prev.ret = ReturnIndex(25)

(***************************************************************************)
(* C5: for each codec, encode(NO_CHORD) returns 0 without any call on the  *)
(* chord symbol functions, and decode(0) returns NO_CHORD.                 *)
(***************************************************************************)
C5_NoChord ==
  /\ (last.op = "encode" /\ last.event = NO_CHORD)
       => (last.ret = ReturnIndex(0) /\ last.calls = <<>>)
  /\ (last.op = "decode" /\ last.index = 0)
       => last.ret = ReturnLabel(NO_CHORD)

C5_Witness ==
  /\ ~ OracleRoot(NO_CHORD).ok /\ ~ OracleQuality(NO_CHORD).ok
  /\ prev.codec = "Triad" /\ prev.op = "encode" /\ prev.event = NO_CHORD
  /\ prev.ret = ReturnIndex(0) /\ prev.calls = <<>>
  /\ last.codec = "Triad" /\ last.op = "decode" /\ last.index = 0
  /\ last.ret = ReturnLabel(NO_CHORD)

(***************************************************************************)
(* C6: encoding a label other than NO_CHORD with oracle root r in 0..11    *)
(* and a supported quality of band k (MAJOR 0, MINOR 1, AUGMENTED 2,       *)
(* DIMINISHED 3) returns r + 12*k + 1, which lies in 1..num_classes-1      *)
(* (num_classes 25 and 49); index 0 is returned for NO_CHORD only.         *)
(***************************************************************************)
C6_EncodeFormula ==
  /\ MajorMinor_num_classes = 25 /\ Triad_num_classes = 49
  /\ (last.op = "encode" /\ Supported(last.codec, last.event))
       => /\ last.ret = ReturnIndex(OracleRoot(last.event).val
                                    + 12 * BandOf(last.event) + 1)
          /\ last.ret.index \in 1 .. (NumClasses(last.codec) - 1)
  /\ (last.op = "encode" /\ last.ret.kind = "index" /\ last.ret.index = 0)
       => last.event = NO_CHORD

C6_Witness ==
  /\ last.codec = "Triad" /\ last.op = "encode" /\ last.event = "Ebdim"
  /\ last.ret = ReturnIndex(40)
  /\ last.calls = <<"chord_symbol_root", "chord_symbol_quality">>

(***************************************************************************)
(* C7: for each codec and every index i in 1..num_classes-1, decode(i) is  *)
(* the table name of pitch class (i-1) mod 12 followed by the suffix of    *)
(* band (i-1) div 12: the bands are exactly 1..12, 13..24, 25..36, 37..48. *)
(***************************************************************************)
C7_DecodeFormula ==
  (last.op = "decode" /\ last.index \in 1 .. (NumClasses(last.codec) - 1))
    => last.ret = ReturnLabel(PitchClassTable[((last.index - 1) % 12) + 1]
                              \o BandSuffix[((last.index - 1) \div 12) + 1])

C7_Witness ==
  /\ last.codec = "Triad" /\ last.op = "decode" /\ last.index = 37
  /\ last.ret = ReturnLabel("Cdim")

(***************************************************************************)
(* C8: the two codecs agree on the shared part: an index in 0..24 decodes  *)
(* to the same label on both, and NO_CHORD and every label of oracle       *)
(* quality MAJOR or MINOR encodes to the same index on both.               *)
(***************************************************************************)
C8_CodecsAgree ==
  /\ (/\ prev.op = "decode" /\ last.op = "decode"
      /\ prev.codec # last.codec /\ prev.index = last.index
      /\ last.index \in 0 .. 24)
       => (last.ret = prev.ret /\ last.ret.kind = "label")
  /\ (/\ prev.op = "encode" /\ last.op = "encode"
      /\ prev.codec # last.codec /\ prev.event = last.event
      /\ (last.event = NO_CHORD \/ Supported("MajorMinor", last.event)))
       => (last.ret = prev.ret /\ last.ret.kind = "index")

C8_Witness ==
  /\ prev.codec = "MajorMinor" /\ prev.op = "decode" /\ prev.index = 4
  /\ last.codec = "Triad" /\ last.op = "decode" /\ last.index = 4
  /\ prev.ret = ReturnLabel("Eb") /\ last.ret = ReturnLabel("Eb")

(***************************************************************************)
(* C9: no call, failing ones included, changes the pitch class table or    *)
(* either codec's reference to the chord symbol functions, and every call  *)
(* has the outcome the same call has on the freshly constructed codecs.    *)
(***************************************************************************)
FirstCallOutcome(c) ==
  IF c.op = "encode"
  THEN IF c.codec = "MajorMinor"
       THEN MajorMinor_encode_event(MajorMinor_init(DefaultFunctions),
                                    c.event).ret
       ELSE Triad_encode_event(Triad_init(DefaultFunctions), c.event).ret
  ELSE IF c.codec = "MajorMinor"
       THEN MajorMinor_decode_event(PitchClassMappingInit, c.index)
       ELSE Triad_decode_event(PitchClassMappingInit, c.index)

C9_Stateless ==
  /\ [][/\ PITCH_CLASS_MAPPING' = PITCH_CLASS_MAPPING
        /\ mm' = mm
        /\ triad' = triad]_vars
  /\ [](last.op # "none" => last.ret = FirstCallOutcome(last))
  /\ []((prev.op = last.op /\ prev.codec = last.codec
         /\ prev.event = last.event /\ prev.index = last.index)
          => prev.ret = last.ret)

C9_Witness ==
  /\ prev.codec = "MajorMinor" /\ prev.op = "decode" /\ prev.index = 25
  /\ prev.ret.kind = "IndexError"
  /\ last.codec = "MajorMinor" /\ last.op = "decode" /\ last.index = 25
  /\ last.ret.kind = "IndexError"
  /\ PITCH_CLASS_MAPPING = PitchClassMappingInit
  /\ mm = MajorMinor_init(DefaultFunctions)

(***************************************************************************)
(* C10: for each codec and every index i in 0..num_classes-1, decode(i)    *)
(* returns a label and encoding that label returns i.                      *)
(***************************************************************************)
C10_EncodeOfDecode ==
  /\ (last.op = "decode" /\ last.index \in 0 .. (NumClasses(last.codec) - 1))
       => last.ret.kind = "label"
  /\ (/\ prev.op = "decode" /\ prev.ret.kind = "label"
      /\ prev.index \in 0 .. (NumClasses(prev.codec) - 1)
      /\ last.op = "encode" /\ last.codec = prev.codec
      /\ last.event = prev.ret.label)
       => last.ret = ReturnIndex(prev.index)

C10_Witness ==
  /\ prev.codec = "Triad" /\ prev.op = "decode" /\ prev.index = 48
  /\ prev.ret = ReturnLabel("Bdim")
  /\ last.codec = "Triad" /\ last.op = "encode" /\ last.event = "Bdim"
  /\ last.ret = ReturnIndex(48)

====
